---- MODULE Spec2Model ----
(***************************************************************************)
(* A model of src/cua_agent.py: ComputerUsingAgent.run_task and the        *)
(* helpers it calls (start_browser, stop_browser, take_screenshot,         *)
(* call_cua_api, parse_and_execute_action).                                *)
(*                                                                         *)
(* A model reply is a sequence of tokens separated by whitespace: prose    *)
(* words, the fence opener ```json, the fence closer ```, and brace spans  *)
(* "{...}" (decodable JSON objects, or malformed ones).  The two regular   *)
(* expressions of parse_and_execute_action and the completion-marker test  *)
(* of run_task are computed over these tokens.                             *)
(***************************************************************************)
EXTENDS Integers, Sequences, FiniteSets, TLC

\* The largest max_steps the model explores (CUAConfig.max_steps is drawn from 0..MaxStepsBound).
MaxStepsBound == 2

\* time.sleep(2) after a successful action.
SettleSeconds == 2
\* details.get("delta_y", 300)
DefaultDeltaY == 300
\* details.get("seconds", 1)
DefaultWaitSeconds == 1

----------------------------------------------------------------------------
(* Strings as characters: str.lower() and the substring test `in`.         *)

UpperLetters ==
  <<"A","B","C","D","E","F","G","H","I","J","K","L","M",
    "N","O","P","Q","R","S","T","U","V","W","X","Y","Z">>

LowerLetters ==
  <<"a","b","c","d","e","f","g","h","i","j","k","l","m",
    "n","o","p","q","r","s","t","u","v","w","x","y","z">>

\* The characters of every string that occurs in a modelled reply.
Chars(s) ==
  CASE s = "Thinking"          -> <<"T","h","i","n","k","i","n","g">>
    [] s = "Done."             -> <<"D","o","n","e",".">>
    [] s = "done"              -> <<"d","o","n","e">>
    [] s = "note"              -> <<"n","o","t","e">>
    [] s = "then"              -> <<"t","h","e","n">>
    [] s = "action"            -> <<"a","c","t","i","o","n">>
    [] s = "details"           -> <<"d","e","t","a","i","l","s">>
    [] s = "task_complete"     -> <<"t","a","s","k","_","c","o","m","p","l","e","t","e">>
    [] s = "x"                 -> <<"x">>
    [] s = "y"                 -> <<"y">>
    [] s = "selector"          -> <<"s","e","l","e","c","t","o","r">>
    [] s = "query"             -> <<"q","u","e","r","y">>
    [] s = "text"              -> <<"t","e","x","t">>
    [] s = "delta_y"           -> <<"d","e","l","t","a","_","y">>
    [] s = "seconds"           -> <<"s","e","c","o","n","d","s">>
    [] s = "url"               -> <<"u","r","l">>
    [] s = "click"             -> <<"c","l","i","c","k">>
    [] s = "type"              -> <<"t","y","p","e">>
    [] s = "type_search_query" -> <<"t","y","p","e","_","s","e","a","r","c","h","_","q","u","e","r","y">>
    [] s = "press_enter"       -> <<"p","r","e","s","s","_","e","n","t","e","r">>
    [] s = "submit"            -> <<"s","u","b","m","i","t">>
    [] s = "click_search"      -> <<"c","l","i","c","k","_","s","e","a","r","c","h">>
    [] s = "search"            -> <<"s","e","a","r","c","h">>
    [] s = "scroll"            -> <<"s","c","r","o","l","l">>
    [] s = "wait"              -> <<"w","a","i","t">>
    [] s = "navigate"          -> <<"n","a","v","i","g","a","t","e">>
    [] s = "OpenAI"            -> <<"O","p","e","n","A","I">>
    [] s = "abandoned"         -> <<"a","b","a","n","d","o","n","e","d">>
    [] s = "hi"                -> <<"h","i">>
    [] s = "#btn"              -> <<"#","b","t","n">>
    [] s = "#box"              -> <<"#","b","o","x">>
    [] s = "example.com"       -> <<"e","x","a","m","p","l","e",".","c","o","m">>

\* One character of str.lower().
LowerChar(c) ==
  IF \E i \in 1..Len(UpperLetters) : UpperLetters[i] = c
    THEN LowerLetters[CHOOSE i \in 1..Len(UpperLetters) : UpperLetters[i] = c]
    ELSE c

\* str.lower()
Lower(cs) == [i \in 1..Len(cs) |-> LowerChar(cs[i])]

\* `needle in hay` for strings.
IsSubstring(needle, hay) ==
  \E i \in 0..(Len(hay) - Len(needle)) :
    \A j \in 1..Len(needle) : hay[i + j] = needle[j]

----------------------------------------------------------------------------
(* Replies.                                                                *)

Word(s)    == [k |-> "word", s |-> s]
\* ```json
FenceOpen  == [k |-> "fopen"]
\* ```
FenceClose == [k |-> "fclose"]
\* "{...}" that json.loads decodes to the object v.
Obj(v)     == [k |-> "obj", ok |-> TRUE, val |-> v]
\* "{...}" that json.loads rejects; v names the strings written in it.
BadObj(v)  == [k |-> "obj", ok |-> FALSE, val |-> v]

\* {} as a JSON object.
EmptyDict == [n \in {} |-> 0]

\* The replies the model surface may give.
Replies ==
  << \* 1: prose only
     <<Word("Thinking")>>,
     \* 2: a completion marker in prose, mixed case
     <<Word("Done.")>>,
     \* 3: a completion marker and a well-formed fenced action
     <<Word("Done."), FenceOpen,
       Obj([action |-> "click", details |-> [x |-> 10, y |-> 20]]), FenceClose>>,
     \* 4: fenced coordinate click
     <<FenceOpen, Obj([action |-> "click", details |-> [x |-> 10, y |-> 20]]), FenceClose>>,
     \* 5: bare click with coordinates and a selector
     <<Obj([action |-> "click", details |-> [x |-> 30, y |-> 40, selector |-> "#btn"]])>>,
     \* 6: fenced selector click
     <<FenceOpen, Obj([action |-> "click", details |-> [selector |-> "#btn"]]), FenceClose>>,
     \* 7: click with only one coordinate
     <<Obj([action |-> "click", details |-> [x |-> 10]])>>,
     \* 8: type_search_query without selector
     <<FenceOpen, Obj([action |-> "type_search_query", details |-> [query |-> "OpenAI"]]),
       FenceClose>>,
     \* 9: type into a selector
     <<Obj([action |-> "type", details |-> [text |-> "hi", selector |-> "#box"]])>>,
     \* 10: press_enter, no details key
     <<Obj([action |-> "press_enter"])>>,
     \* 11: click_search
     <<Obj([action |-> "click_search", details |-> EmptyDict])>>,
     \* 12: scroll with the default delta
     <<Obj([action |-> "scroll", details |-> EmptyDict])>>,
     \* 13: wait
     <<Obj([action |-> "wait", details |-> [seconds |-> 2]])>>,
     \* 14: navigate
     <<Obj([action |-> "navigate", details |-> [url |-> "example.com"]])>>,
     \* 15: an object with no action key
     <<Obj([details |-> [x |-> 10, y |-> 20]])>>,
     \* 16: a malformed fenced block, then a valid fenced block
     <<FenceOpen, BadObj([action |-> "click"]), FenceClose,
       FenceOpen, Obj([action |-> "press_enter"]), FenceClose>>,
     \* 17: a malformed fenced block, then a valid bare object
     <<FenceOpen, BadObj([action |-> "click"]), FenceClose,
       Obj([action |-> "press_enter"])>>,
     \* 18: two valid fenced blocks
     <<FenceOpen, Obj([action |-> "press_enter"]), FenceClose, Word("then"),
       FenceOpen, Obj([action |-> "scroll", details |-> [delta_y |-> 100]]), FenceClose>>,
     \* 19: an action carrying "task_complete": true
     <<Obj([action |-> "press_enter", task_complete |-> TRUE])>>,
     \* 20: a query that happens to contain "done"
     <<Obj([action |-> "type_search_query", details |-> [query |-> "abandoned"]])>>,
     \* 21: two bare objects
     <<Obj([action |-> "press_enter"]), Word("then"),
       Obj([action |-> "scroll", details |-> EmptyDict])>>,
     \* 22: a fence without an object in it, then a bare object
     <<FenceOpen, Word("note"), FenceClose, Obj([action |-> "submit"])>>,
     \* 23: a fenced object followed by prose inside the fence, then a second block
     <<FenceOpen, Obj([action |-> "press_enter"]), Word("note"), FenceClose,
       FenceOpen, Obj([action |-> "search"]), FenceClose>>,
     \* 24: search, the other name of click_search
     <<FenceOpen, Obj([action |-> "search", details |-> EmptyDict]), FenceClose>>
  >>

ReplyIds == 1..Len(Replies)

\* The keys of a JSON object whose values are strings.
StringKeys == {"action", "selector", "query", "text", "url"}

\* The strings written in a JSON object: its keys and its string values.
DictStrings(d) ==
  DOMAIN d \cup {d[key] : key \in DOMAIN d \cap StringKeys}

\* The strings written in one token.
TokenStrings(tok) ==
  CASE tok.k = "word" -> {tok.s}
    [] tok.k = "obj"  -> DictStrings(tok.val) \cup
                         (IF "details" \in DOMAIN tok.val
                            THEN DictStrings(tok.val.details) ELSE {})
    [] OTHER          -> {}

\* `marker in response_text.lower()`
ContainsLower(text, marker) ==
  \E i \in 1..Len(text) : \E s \in TokenStrings(text[i]) :
    IsSubstring(Chars(marker), Lower(Chars(s)))

\* "task_complete" in response_text.lower() or "done" in response_text.lower()
HasCompletionMarker(text) ==
  ContainsLower(text, "task_complete") \/ ContainsLower(text, "done")

----------------------------------------------------------------------------
(* parse_and_execute_action: the two regular expressions and json.loads.   *)

MinOf(S) == CHOOSE m \in S : \A n \in S : m <= n
MaxOf(S) == CHOOSE m \in S : \A n \in S : n <= m

\* A token whose text starts with ``` (both ```json and ``` do).
IsFence(tok) == tok.k \in {"fopen", "fclose"}

\* The positions j >= i where a lazy "\{.*?\}\s*```" that started at i may end:
\* a closing brace directly followed by a fence.
FencedEnds(text, i) ==
  {j \in i..(Len(text) - 1) : text[j].k = "obj" /\ IsFence(text[j + 1])}

\* The positions where "```json\s*(\{.*?\})\s*```" matches.
FencedStarts(text) ==
  {i \in 1..(Len(text) - 1) :
     text[i].k = "fopen" /\ text[i + 1].k = "obj" /\ FencedEnds(text, i + 1) # {}}

\* FencedMatch taking the last fenced block of the reply instead of the first.
FencedMatchLast(text) ==
  IF FencedStarts(text) = {} THEN <<>>
  ELSE LET i == MaxOf(FencedStarts(text))
       IN  SubSeq(text, i + 1, MinOf(FencedEnds(text, i + 1)))

\* re.search(r'```json\s*(\{.*?\})\s*```', response_text, re.DOTALL): group(1) of
\* the leftmost match, the shortest one from there; <<>> stands for no match.
FencedMatch(text) ==
  IF FencedStarts(text) = {} THEN <<>>
  ELSE LET i == MinOf(FencedStarts(text))
       IN  SubSeq(text, i + 1, MinOf(FencedEnds(text, i + 1)))

\* re.search(r'\{.*\}', response_text, re.DOTALL): from the first opening brace
\* to the last closing brace; <<>> stands for no match.
BraceMatch(text) ==
  LET objs == {i \in 1..Len(text) : text[i].k = "obj"}
  IN  IF objs = {} THEN <<>> ELSE SubSeq(text, MinOf(objs), MaxOf(objs))

\* json.loads of a matched span: it decodes when the span is exactly one
\* well-formed object ("{..} more {..}" is extra data, a JSONDecodeError).
JsonLoads(span) ==
  IF Len(span) = 1 /\ span[1].ok
    THEN [ok |-> TRUE, val |-> span[1].val]
    ELSE [ok |-> FALSE, val |-> EmptyDict]

\* ExtractActionData that, when the fenced block does not decode, goes on to
\* search the reply for an object that does.
ExtractActionDataFallsBack(text) ==
  LET good == {i \in DOMAIN text : text[i].k = "obj" /\ text[i].ok}
  IN  IF FencedMatch(text) # <<>> /\ JsonLoads(FencedMatch(text)).ok
        THEN [found |-> TRUE] @@ JsonLoads(FencedMatch(text))
      ELSE IF FencedMatch(text) # <<>> /\ good # {}
        THEN [found |-> TRUE, ok |-> TRUE, val |-> text[MinOf(good)].val]
      ELSE IF FencedMatch(text) # <<>>
        THEN [found |-> TRUE, ok |-> FALSE, val |-> EmptyDict]
      ELSE IF BraceMatch(text) # <<>>
        THEN [found |-> TRUE] @@ JsonLoads(BraceMatch(text))
      ELSE [found |-> FALSE, ok |-> FALSE, val |-> EmptyDict]

\* Lines 66-78: found (a span was matched), ok (it decoded), val (action_data).
ExtractActionData(text) ==
  IF FencedMatch(text) # <<>>
    THEN [found |-> TRUE] @@ JsonLoads(FencedMatch(text))
  ELSE IF BraceMatch(text) # <<>>
    THEN [found |-> TRUE] @@ JsonLoads(BraceMatch(text))
  ELSE [found |-> FALSE, ok |-> FALSE, val |-> EmptyDict]

\* dict.get(key, default)
Get(d, key, default) == IF key \in DOMAIN d THEN d[key] ELSE default

----------------------------------------------------------------------------
(* Events: every call run_task makes on a collaborator, in order.  turn is *)
(* step + 1 of the loop iteration that made the call (0 outside the loop). *)

Ev(op, sel, txt, x, y, ok, turn) ==
  [op |-> op, sel |-> sel, txt |-> txt, x |-> x, y |-> y, ok |-> ok, turn |-> turn]

\* The browser input primitives of the Browser Surface.
InputOps == {"mouse.click", "click", "fill", "keyboard.type", "keyboard.press", "mouse.wheel"}

\* ExecClick with the two tests in the other order: a selector wins over coordinates.
ExecClickSelectorFirst(details, outs, turn) ==
  IF "selector" \in DOMAIN details
    THEN [success |-> outs[1],
          events  |-> <<[op |-> "click", sel |-> details.selector, txt |-> "", x |-> 0,
                         y |-> 0, ok |-> outs[1], turn |-> turn]>>]
  ELSE IF "x" \in DOMAIN details /\ "y" \in DOMAIN details
    THEN [success |-> outs[1],
          events  |-> <<[op |-> "mouse.click", sel |-> "", txt |-> "", x |-> details.x,
                         y |-> details.y, ok |-> outs[1], turn |-> turn]>>]
  ELSE [success |-> FALSE, events |-> <<>>]

\* Lines 83-91: outs[1] tells whether the click returns (TRUE) or raises.
ExecClick(details, outs, turn) ==
  IF "x" \in DOMAIN details /\ "y" \in DOMAIN details
    THEN [success |-> outs[1],
          events  |-> <<Ev("mouse.click", "", "", details.x, details.y, outs[1], turn)>>]
  ELSE IF "selector" \in DOMAIN details
    THEN [success |-> outs[1],
          events  |-> <<Ev("click", details.selector, "", 0, 0, outs[1], turn)>>]
  ELSE [success |-> FALSE, events |-> <<>>]

\* Line 95: details.get("query") or details.get("text", "")
TypedText(details) ==
  IF "query" \in DOMAIN details /\ details.query # ""
    THEN details.query
    ELSE Get(details, "text", "")

\* Chain with one retry of the first call when it raises.
ChainRetriesOnce(calls, outs, turn) ==
  LET made  == {n \in 1..Len(calls) : \A m \in 1..(n - 1) : ~outs[m]}
      last  == MaxOf(made)
      first == <<Ev(calls[1].op, calls[1].sel, calls[1].txt, 0, 0, FALSE, turn)>>
  IN  [success |-> outs[last],
       events  |-> (IF outs[1] THEN <<>> ELSE first) \o
                   [n \in 1..last |->
                      Ev(calls[n].op, calls[n].sel, calls[n].txt, 0, 0, outs[n], turn)]]

\* Chain with the exception of the last call swallowed like the earlier ones:
\* the action succeeds whatever its calls did.
ChainSwallowsLast(calls, outs, turn) ==
  LET made == {n \in 1..Len(calls) : \A m \in 1..(n - 1) : ~outs[m]}
      last == MaxOf(made)
  IN  [success |-> TRUE,
       events  |-> [n \in 1..last |->
                      Ev(calls[n].op, calls[n].sel, calls[n].txt, 0, 0, outs[n], turn)]]

\* The calls of a chain of fallbacks: calls[n] is made when calls 1..n-1 raised;
\* outs[n] tells whether call n returns.
Chain(calls, outs, turn) ==
  LET made == {n \in 1..Len(calls) : \A m \in 1..(n - 1) : ~outs[m]}
      last == MaxOf(made)
  IN  [success |-> outs[last],
       events  |-> [n \in 1..last |->
                      Ev(calls[n].op, calls[n].sel, calls[n].txt, 0, 0, outs[n], turn)]]

Call(op, sel, txt) == [op |-> op, sel |-> sel, txt |-> txt]

\* ExecType with the two fills of the fallback chain in the other order.
ExecTypeSearchFieldFirst(details, outs, turn) ==
  IF "selector" \in DOMAIN details
    THEN Chain(<<Call("fill", details.selector, TypedText(details))>>, outs, turn)
    ELSE Chain(<<Call("fill", "input[type=\"search\"]", TypedText(details)),
                 Call("fill", "input[name=\"q\"]", TypedText(details)),
                 Call("keyboard.type", "", TypedText(details))>>, outs, turn)

\* Lines 93-106.
ExecType(details, outs, turn) ==
  IF "selector" \in DOMAIN details
    THEN Chain(<<Call("fill", details.selector, TypedText(details))>>, outs, turn)
    ELSE Chain(<<Call("fill", "input[name=\"q\"]", TypedText(details)),
                 Call("fill", "input[type=\"search\"]", TypedText(details)),
                 Call("keyboard.type", "", TypedText(details))>>, outs, turn)

\* Lines 108-109.
ExecPressEnter(outs, turn) ==
  Chain(<<Call("keyboard.press", "", "Enter")>>, outs, turn)

\* ExecClickSearch with the two clicks of the chain in the other order.
ExecClickSearchSubmitFirst(outs, turn) ==
  Chain(<<Call("click", "button[type=\"submit\"]", ""),
          Call("click", "input[value=\"Google Search\"]", ""),
          Call("keyboard.press", "", "Enter")>>, outs, turn)

\* Lines 111-119.
ExecClickSearch(outs, turn) ==
  Chain(<<Call("click", "input[value=\"Google Search\"]", ""),
          Call("click", "button[type=\"submit\"]", ""),
          Call("keyboard.press", "", "Enter")>>, outs, turn)

\* Lines 121-123.
ExecScroll(details, outs, turn) ==
  [success |-> outs[1],
   events  |-> <<Ev("mouse.wheel", "", "", 0, Get(details, "delta_y", DefaultDeltaY),
                    outs[1], turn)>>]

\* Lines 125-126: time.sleep of the wait action.
ExecWait(details, turn) ==
  [success |-> TRUE,
   events  |-> <<Ev("time.sleep", "", "", 0, Get(details, "seconds", DefaultWaitSeconds),
                    TRUE, turn)>>]

\* The action names the dispatch of lines 83-125 has a branch for.
RecognizedActions ==
  {"click", "type", "type_search_query", "press_enter", "submit",
   "click_search", "search", "scroll", "wait"}

\* Dispatch with a navigate branch the source does not have: page.goto(url),
\* then `return True`.
DispatchWithNavigate(action_data, outs, turn) ==
  LET action  == Get(action_data, "action", "None")
      details == Get(action_data, "details", EmptyDict)
  IN  CASE action = "click"                             -> ExecClick(details, outs, turn)
        [] action \in {"type", "type_search_query"}     -> ExecType(details, outs, turn)
        [] action \in {"press_enter", "submit"}         -> ExecPressEnter(outs, turn)
        [] action \in {"click_search", "search"}        -> ExecClickSearch(outs, turn)
        [] action = "scroll"                            -> ExecScroll(details, outs, turn)
        [] action = "wait"                              -> ExecWait(details, turn)
        [] action = "navigate"                          ->
             [success |-> TRUE,
              events  |-> <<Ev("goto", "", Get(details, "url", ""), 0, 0, TRUE, turn)>>]
        [] OTHER                                        -> [success |-> FALSE, events |-> <<>>]

\* Dispatch without the `return False` of the else branch: an action outside the
\* vocabulary falls through to `return True`.
DispatchUnknownSucceeds(action_data, outs, turn) ==
  LET action  == Get(action_data, "action", "None")
      details == Get(action_data, "details", EmptyDict)
  IN  CASE action = "click"                             -> ExecClick(details, outs, turn)
        [] action \in {"type", "type_search_query"}     -> ExecType(details, outs, turn)
        [] action \in {"press_enter", "submit"}         -> ExecPressEnter(outs, turn)
        [] action \in {"click_search", "search"}        -> ExecClickSearch(outs, turn)
        [] action = "scroll"                            -> ExecScroll(details, outs, turn)
        [] action = "wait"                              -> ExecWait(details, turn)
        [] OTHER                                        -> [success |-> TRUE, events |-> <<>>]

\* Lines 80-132: the dispatch on action_data.get("action"); a missing key is None.
Dispatch(action_data, outs, turn) ==
  LET action  == Get(action_data, "action", "None")
      details == Get(action_data, "details", EmptyDict)
  IN  CASE action = "click"                             -> ExecClick(details, outs, turn)
        [] action \in {"type", "type_search_query"}     -> ExecType(details, outs, turn)
        [] action \in {"press_enter", "submit"}         -> ExecPressEnter(outs, turn)
        [] action \in {"click_search", "search"}        -> ExecClickSearch(outs, turn)
        [] action = "scroll"                            -> ExecScroll(details, outs, turn)
        [] action = "wait"                              -> ExecWait(details, turn)
        [] OTHER                                        -> [success |-> FALSE, events |-> <<>>]

\* parse_and_execute_action(response_text), lines 63-139: the value it returns
\* and the calls it makes on the page; every exception is caught inside it.
ParseAndExecute(text, outs, turn) ==
  LET data == ExtractActionData(text)
  IN  IF data.found /\ data.ok
        THEN Dispatch(data.val, outs, turn)
        ELSE [success |-> FALSE, events |-> <<>>]

----------------------------------------------------------------------------
(* run_task as a state machine.                                            *)

VARIABLES
  pc,                    \* where run_task is
  max_steps,             \* self.config.max_steps
  step,                  \* the loop variable of `for step in range(max_steps)`
  conversation_history,  \* the list run_task builds
  response_text,         \* the reply of this turn, as its index in Replies (0: none yet)
  playwright,            \* self.playwright: "None" or "driver"
  browser,               \* self.browser: "None" or "browser"
  page,                  \* self.page: "None" or "page"
  log,                   \* every collaborator call made so far, in order
  sent,                  \* the conversation_history argument of each call_cua_api
  retval,                \* the value of the return statement run_task executed
  pending                \* the exception in flight, "none" when there is none

vars == <<pc, max_steps, step, conversation_history, response_text,
          playwright, browser, page, log, sent, retval, pending>>

NoResult == [kind |-> "none", success |-> FALSE, key |-> "", n |-> 0]
\* Lines 213-217.
ApiFailed(n) == [kind |-> "API call failed", success |-> FALSE, key |-> "step", n |-> n]
\* Lines 230-234.
Completed(n) ==
  [kind |-> "Task completed successfully", success |-> TRUE, key |-> "steps", n |-> n]
\* Lines 245-249.
MaxStepsReached(n) ==
  [kind |-> "Max steps reached without completion", success |-> FALSE, key |-> "steps", n |-> n]

Init ==
  /\ pc = "start_browser"
  /\ max_steps \in 0..MaxStepsBound
  /\ step = 0
  /\ conversation_history = <<>>
  /\ response_text = 0
  /\ playwright = "None"
  /\ browser = "None"
  /\ page = "None"
  /\ log = <<>>
  /\ sent = <<>>
  /\ retval = NoResult
  /\ pending = "none"

\* The calls start_browser makes, in order (lines 40-46).
StartCalls == <<"sync_playwright.start", "chromium.launch", "new_page", "set_viewport_size">>

\* Line 198 with start_browser, lines 38-46.  The call is made before the try
\* statement: an exception of any of its calls leaves run_task at once, and the
\* finally clause does not run.  failAt is the call that raises (0: none does).
StartBrowser ==
  /\ pc = "start_browser"
  /\ \E failAt \in 0..Len(StartCalls) :
       LET made == IF failAt = 0 THEN Len(StartCalls) ELSE failAt
       IN  /\ log' = log \o [n \in 1..made |->
                               Ev(StartCalls[n], "", "", 0, 0, n # failAt, 0)]
           /\ playwright' = IF failAt # 1 THEN "driver" ELSE "None"
           /\ browser' = IF failAt \notin {1, 2} THEN "browser" ELSE "None"
           /\ page' = IF failAt \notin {1, 2, 3} THEN "page" ELSE "None"
           /\ pending' = IF failAt = 0 THEN "none" ELSE StartCalls[failAt]
           /\ pc' = IF failAt = 0 THEN "goto" ELSE "raised"
  /\ UNCHANGED <<max_steps, step, conversation_history, response_text, sent, retval>>

\* LoopHead as a loop that tests the budget and never advances the step: the
\* turn of step is run again.
LoopHeadSameTurn(n) ==
  IF step < max_steps
    THEN /\ step' = step
         /\ pc' = "screenshot"
         /\ retval' = retval
    ELSE /\ step' = step
         /\ pc' = "stop_browser"
         /\ retval' = MaxStepsReached(max_steps)

\* The head of `for step in range(self.config.max_steps)` for the value n, and
\* the return statement after the loop (lines 205, 245-249).
LoopHead(n) ==
  IF n < max_steps
    THEN /\ step' = n
         /\ pc' = "screenshot"
         /\ retval' = retval
    ELSE /\ step' = step
         /\ pc' = "stop_browser"
         /\ retval' = MaxStepsReached(max_steps)

\* Line 203: self.page.goto(start_url), inside the try statement.
Goto ==
  /\ pc = "goto"
  /\ \E ok \in BOOLEAN :
       /\ log' = Append(log, Ev("goto", "", "", 0, 0, ok, 0))
       /\ IF ok
            THEN LoopHead(0) /\ pending' = pending
            ELSE /\ pc' = "stop_browser"
                 /\ pending' = "goto"
                 /\ UNCHANGED <<step, retval>>
  /\ UNCHANGED <<max_steps, conversation_history, response_text,
                 playwright, browser, page, sent>>

\* Line 207 with take_screenshot, lines 55-61.
TakeScreenshot ==
  /\ pc = "screenshot"
  /\ IF page = "None"
       THEN /\ pending' = "Browser not initialized"
            /\ pc' = "stop_browser"
            /\ log' = log
       ELSE \E ok \in BOOLEAN :
              /\ log' = Append(log, Ev("screenshot", "", "", 0, 0, ok, step + 1))
              /\ pending' = IF ok THEN pending ELSE "screenshot"
              /\ pc' = IF ok THEN "call_api" ELSE "stop_browser"
  /\ UNCHANGED <<max_steps, step, conversation_history, response_text,
                 playwright, browser, page, sent, retval>>

\* Lines 210-226 with call_cua_api, lines 141-193: the call gets the history built
\* so far; an exception of the client is caught in call_cua_api and ends the run
\* with the API failure; a reply is appended to the history.
\* CallApi with a history that keeps the last reply only.
CallApiKeepsLastOnly ==
  /\ pc = "call_api"
  /\ sent' = Append(sent, conversation_history)
  /\ \/ /\ log' = Append(log, Ev("chat.completions.create", "", "", 0, 0, FALSE, step + 1))
        /\ retval' = ApiFailed(step + 1)
        /\ pc' = "stop_browser"
        /\ UNCHANGED <<conversation_history, response_text>>
     \/ \E r \in ReplyIds :
          /\ log' = Append(log, Ev("chat.completions.create", "", "", 0, 0, TRUE, step + 1))
          /\ response_text' = r
          /\ conversation_history' = <<[role |-> "assistant", content |-> r]>>
          /\ pc' = "check_complete"
          /\ retval' = retval
  /\ UNCHANGED <<max_steps, step, playwright, browser, page, pending>>

CallApi ==
  /\ pc = "call_api"
  /\ sent' = Append(sent, conversation_history)
  /\ \/ /\ log' = Append(log, Ev("chat.completions.create", "", "", 0, 0, FALSE, step + 1))
        /\ retval' = ApiFailed(step + 1)
        /\ pc' = "stop_browser"
        /\ UNCHANGED <<conversation_history, response_text>>
     \/ \E r \in ReplyIds :
          /\ log' = Append(log, Ev("chat.completions.create", "", "", 0, 0, TRUE, step + 1))
          /\ response_text' = r
          /\ conversation_history' =
               Append(conversation_history, [role |-> "assistant", content |-> r])
          /\ pc' = "check_complete"
          /\ retval' = retval
  /\ UNCHANGED <<max_steps, step, playwright, browser, page, pending>>

\* CheckComplete with the test of line 229 negated: the run completes on a
\* reply without marker.
CheckCompleteInverted ==
  /\ pc = "check_complete"
  /\ IF ~HasCompletionMarker(Replies[response_text])
       THEN /\ retval' = Completed(step + 1)
            /\ pc' = "stop_browser"
       ELSE /\ retval' = retval
            /\ pc' = "act"
  /\ UNCHANGED <<max_steps, step, conversation_history, response_text,
                 playwright, browser, page, log, sent, pending>>

\* CheckComplete without the completion check: every reply goes on to the parser.
CheckCompleteSkipped ==
  /\ pc = "check_complete"
  /\ retval' = retval
  /\ pc' = "act"
  /\ UNCHANGED <<max_steps, step, conversation_history, response_text,
                 playwright, browser, page, log, sent, pending>>

\* Lines 228-234: the completion check on the raw reply.
CheckComplete ==
  /\ pc = "check_complete"
  /\ IF HasCompletionMarker(Replies[response_text])
       THEN /\ retval' = Completed(step + 1)
            /\ pc' = "stop_browser"
       ELSE /\ retval' = retval
            /\ pc' = "act"
  /\ UNCHANGED <<max_steps, step, conversation_history, response_text,
                 playwright, browser, page, log, sent, pending>>

\* Settle without the test of action_success: the delay follows every action.
SettleAlways(action_success, turn) ==
  <<[op |-> "settle", sel |-> "", txt |-> "", x |-> 0, y |-> SettleSeconds,
     ok |-> TRUE, turn |-> turn]>>

\* Lines 238-243: time.sleep(2) after an action that succeeded, none after one
\* that failed.
Settle(action_success, turn) ==
  IF action_success
    THEN <<Ev("settle", "", "", 0, SettleSeconds, TRUE, turn)>>
    ELSE <<>>

\* Act without the except clauses of parse_and_execute_action: a reply that
\* yields no action data raises out of the loop.
ActRaisesOnParseFailure ==
  /\ pc = "act"
  /\ IF ExtractActionData(Replies[response_text]).ok
       THEN /\ \E outs \in [1..3 -> BOOLEAN] :
                 LET r == ParseAndExecute(Replies[response_text], outs, step + 1)
                 IN  log' = log \o <<[op |-> "parse_and_execute_action", sel |-> "",
                                      txt |-> "", x |-> 0, y |-> 0, ok |-> r.success,
                                      turn |-> step + 1]>>
                                \o r.events \o Settle(r.success, step + 1)
            /\ LoopHead(step + 1)
            /\ pending' = pending
       ELSE /\ log' = Append(log, [op |-> "parse_and_execute_action", sel |-> "",
                                   txt |-> "", x |-> 0, y |-> 0, ok |-> FALSE,
                                   turn |-> step + 1])
            /\ pending' = "JSONDecodeError"
            /\ pc' = "stop_browser"
            /\ UNCHANGED <<step, retval>>
  /\ UNCHANGED <<max_steps, conversation_history, response_text,
                 playwright, browser, page, sent>>

\* Lines 236-243 with parse_and_execute_action, then the next iteration.  outs
\* tells which of the page calls return and which raise.
Act ==
  /\ pc = "act"
  /\ \E outs \in [1..3 -> BOOLEAN] :
       LET r == ParseAndExecute(Replies[response_text], outs, step + 1)
       IN  log' = log \o <<Ev("parse_and_execute_action", "", "", 0, 0, r.success, step + 1)>>
                      \o r.events \o Settle(r.success, step + 1)
  /\ LoopHead(step + 1)
  /\ UNCHANGED <<max_steps, conversation_history, response_text,
                 playwright, browser, page, sent, pending>>

\* Line 252 with stop_browser, lines 48-53: the finally clause.  An exception of
\* browser.close() skips playwright.stop(); an exception raised here replaces the
\* return value or the exception in flight.
StopBrowser ==
  /\ pc = "stop_browser"
  /\ \E closeOk \in BOOLEAN, stopOk \in BOOLEAN :
       LET closing  == IF browser # "None"
                         THEN <<Ev("browser.close", "", "", 0, 0, closeOk, 0)>> ELSE <<>>
           closed   == browser = "None" \/ closeOk
           stopping == IF closed /\ playwright # "None"
                         THEN <<Ev("playwright.stop", "", "", 0, 0, stopOk, 0)>> ELSE <<>>
           stopped  == playwright = "None" \/ stopOk
       IN  /\ log' = log \o closing \o stopping
           /\ pending' = IF ~closed THEN "browser.close"
                         ELSE IF ~stopped THEN "playwright.stop"
                         ELSE pending
           /\ pc' = IF closed /\ stopped /\ pending = "none" THEN "returned" ELSE "raised"
  /\ UNCHANGED <<max_steps, step, conversation_history, response_text,
                 playwright, browser, page, sent, retval>>

Next ==
  \/ StartBrowser
  \/ Goto
  \/ TakeScreenshot
  \/ CallApi
  \/ CheckComplete
  \/ Act
  \/ StopBrowser

Spec == Init /\ [][Next]_vars

\* run_task when every call it makes on a collaborator (browser, model, sleep)
\* returns or raises: a step that can be taken is taken.
FairSpec == Spec /\ WF_vars(Next)

----------------------------------------------------------------------------
(* What the properties below speak of.                                     *)

\* run_task is over: it returned retval, or an exception left it.
Terminated == pc \in {"returned", "raised"}

\* The positions of the log that hold a call of op.
CallsOf(op) == {i \in DOMAIN log : log[i].op = op}

\* The reply of turn t.
ReplyOf(t) == Replies[conversation_history[t].content]

\* The replies that hold a completion marker, by the test of line 229.
CompletionReplies == {r \in ReplyIds : HasCompletionMarker(Replies[r])}

\* The reply of turn t holds a completion marker.
MarkerIn(t) == conversation_history[t].content \in CompletionReplies

\* The browser input primitives issued in turn t, in order.
InputsOf(t) ==
  LET IsInput(e) == e.turn = t /\ e.op \in InputOps
  IN  SelectSeq(log, IsInput)

\* parse_and_execute_action has run for the reply of turn t.
Acted(t) == \E i \in CallsOf("parse_and_execute_action") : log[i].turn = t

\* No reply so far holds a completion marker, and no model call has failed.
NeverCompleteNeverFailed ==
  /\ \A t \in DOMAIN conversation_history : ~MarkerIn(t)
  /\ \A i \in CallsOf("chat.completions.create") : log[i].ok

----------------------------------------------------------------------------
\* The browser started, the start URL loaded, and the finally clause released
\* the browser without an exception: what is left to go wrong is in the loop.
StartedAndReleasedCleanly ==
  /\ \E i \in CallsOf("goto") : log[i].ok
  /\ \E i \in CallsOf("browser.close") : log[i].ok
  /\ \E i \in CallsOf("playwright.stop") : log[i].ok

\* C1: run_task takes at most max_steps screenshots and makes at most max_steps
\* model calls; when no reply holds a completion marker and no model call
\* fails, the run ends by returning success = False with the max-steps message
\* and steps = max_steps, whatever the browser does in the loop.  (Stated for
\* the runs whose browser started and shut down cleanly; the claim covers the
\* others too.)
C1_BoundedAndMaxStepsOutcome ==
  /\ Cardinality(CallsOf("screenshot")) <= max_steps
  /\ Cardinality(CallsOf("chat.completions.create")) <= max_steps
  /\ (Terminated /\ NeverCompleteNeverFailed /\ StartedAndReleasedCleanly) =>
       (pc = "returned" /\ retval = MaxStepsReached(max_steps))

\* C2: run_task always ends by returning one of its three results; no exception
\* leaves it.
C2_NoExceptionEscapes ==
  Terminated =>
    /\ pc = "returned"
    /\ retval.kind \in {Completed(0).kind, ApiFailed(0).kind, MaxStepsReached(0).kind}

\* C3: on every exit of run_task, the driver and the browser that were acquired
\* have each been released exactly once.
C3_ReleasedExactlyOnce ==
  /\ Cardinality(CallsOf("browser.close")) <= 1
  /\ Cardinality(CallsOf("playwright.stop")) <= 1
  /\ Terminated =>
       /\ (\E i \in CallsOf("sync_playwright.start") : log[i].ok)
            => Cardinality(CallsOf("playwright.stop")) = 1
       /\ (\E i \in CallsOf("chromium.launch") : log[i].ok)
            => Cardinality(CallsOf("browser.close")) = 1

\* C4: a turn whose reply holds a completion marker never reaches
\* parse_and_execute_action and issues no browser input primitive, also when
\* the reply holds a well-formed action; it is the last turn and it ends in the
\* completed result with that turn's number.
C4_MarkerPrecedesParsing ==
  \A t \in DOMAIN conversation_history :
    MarkerIn(t) =>
      /\ ~Acted(t)
      /\ InputsOf(t) = <<>>
      /\ t = Len(conversation_history)
      /\ pc # "check_complete" => (retval = Completed(t) /\ pc \in {"stop_browser", "returned", "raised"})

\* A run completed on a reply that holds both "Done." and a fenced click.
C4_Witness ==
  /\ pc = "returned"
  /\ Len(conversation_history) = 2
  /\ conversation_history[2].content = 3
  /\ ExtractActionData(ReplyOf(2)).ok
  /\ retval = Completed(2)

\* C5: when the model calls succeed and the k-th reply is the first that holds
\* a completion marker, run_task returns success with steps = k, and exactly
\* the replies 1..k-1 went to parse_and_execute_action, in reply order, each
\* once.
C5_CompletesAtFirstMarker ==
  LET k == Len(conversation_history)
  IN  (/\ Terminated
       /\ k >= 1
       /\ \A i \in CallsOf("chat.completions.create") : log[i].ok
       /\ MarkerIn(k)
       /\ \A t \in 1..(k - 1) : ~MarkerIn(t))
      =>
      /\ pc = "returned"
      /\ retval = Completed(k)
      /\ \A t \in 1..(k - 1) :
           Cardinality({i \in CallsOf("parse_and_execute_action") : log[i].turn = t}) = 1
      /\ ~Acted(k)
      /\ InputsOf(k) = <<>>
      /\ \A i \in DOMAIN log : \A j \in DOMAIN log :
           (i < j /\ log[i].turn > 0 /\ log[j].turn > 0) => log[i].turn <= log[j].turn

\* C6: a model call that fails in turn k ends the run as the API failure with
\* step k: nothing but the release of the browser follows it, the history
\* holds the k-1 earlier replies only, and the failure is what run_task
\* returns.
C6_ApiFailureEndsRun ==
  \A i \in CallsOf("chat.completions.create") :
    ~log[i].ok =>
      /\ \A j \in DOMAIN log :
           j > i => log[j].op \in {"browser.close", "playwright.stop"}
      /\ Len(conversation_history) = log[i].turn - 1
      /\ retval = ApiFailed(log[i].turn)
      /\ Terminated => pc = "returned"

\* The reply gives parse_and_execute_action nothing to execute: no brace span,
\* a span that does not decode, an action outside the vocabulary (or none), or
\* a click with neither coordinates nor a selector.
NoUsableAction(text) ==
  LET data    == ExtractActionData(text)
      action  == Get(data.val, "action", "None")
      details == Get(data.val, "details", EmptyDict)
  IN  \/ ~data.found
      \/ ~data.ok
      \/ action \notin RecognizedActions
      \/ /\ action = "click"
         /\ ~("x" \in DOMAIN details /\ "y" \in DOMAIN details)
         /\ "selector" \notin DOMAIN details

\* C7: a reply with no usable action does not abort the run: the call reports
\* failure, no browser input primitive is issued for it, and the very next
\* thing run_task does is the screenshot of the following turn, or, when this
\* was turn max_steps, the max-steps return.
C7_ParseFailureIsNoOpStep ==
  \A i \in CallsOf("parse_and_execute_action") :
    LET t == log[i].turn
    IN  NoUsableAction(ReplyOf(t)) =>
          /\ ~log[i].ok
          /\ InputsOf(t) = <<>>
          /\ IF t < max_steps
               THEN IF i = Len(log)
                      THEN pc = "screenshot" /\ step = t /\ pending = "none"
                      ELSE log[i + 1].op = "screenshot" /\ log[i + 1].turn = t + 1
               ELSE /\ retval = MaxStepsReached(max_steps)
                    /\ IF i = Len(log)
                         THEN pc = "stop_browser" /\ pending = "none"
                         ELSE log[i + 1].op = "browser.close"

\* Turn 1 was prose without any brace span and turn 2 has taken its screenshot.
C7_Witness ==
  /\ Len(conversation_history) >= 1
  /\ ~ExtractActionData(ReplyOf(1)).found
  /\ Acted(1)
  /\ \E j \in CallsOf("screenshot") : log[j].turn = 2 /\ log[j].ok

\* The reply decodes to an action of the vocabulary, which the dispatch hands
\* to the page.
HandedToExecutor(text) ==
  /\ ExtractActionData(text).ok
  /\ Get(ExtractActionData(text).val, "action", "None") \in RecognizedActions

\* C8 as stated: after every turn whose parsed action went to the executor,
\* whether the action succeeded or failed, the settle delay elapses before the
\* next screenshot.
C8_SettleAfterEveryAction ==
  \A i \in CallsOf("parse_and_execute_action") : \A j \in CallsOf("screenshot") :
    (HandedToExecutor(ReplyOf(log[i].turn)) /\ log[j].turn = log[i].turn + 1) =>
      \E n \in CallsOf("settle") : i < n /\ n < j /\ log[n].turn = log[i].turn

\* C8 as amended: a turn whose action succeeded ends with the settle delay of
\* SettleSeconds, before the next screenshot; a turn whose action failed, or
\* whose reply gave none, has no settle delay.
C8_SettleOnlyAfterSuccess ==
  \A i \in CallsOf("parse_and_execute_action") :
    LET t == log[i].turn
        settles == {n \in CallsOf("settle") : log[n].turn = t}
    IN  IF log[i].ok
          THEN /\ Cardinality(settles) = 1
               /\ \A n \in settles :
                    /\ log[n].y = SettleSeconds
                    /\ i < n
                    /\ \A j \in DOMAIN log : (log[j].turn = t /\ j # n) => j < n
                    /\ \A j \in CallsOf("screenshot") : log[j].turn = t + 1 => n < j
          ELSE settles = {}

\* Turn 1 executed its action and settled before the screenshot of turn 2;
\* the action of turn 2 went to the executor and failed, and no settle delay
\* followed it.
C8_Witness ==
  /\ \E i \in CallsOf("parse_and_execute_action") : log[i].turn = 1 /\ log[i].ok
  /\ \E n \in CallsOf("settle") : \E j \in CallsOf("screenshot") :
       log[n].turn = 1 /\ log[j].turn = 2 /\ n < j
  /\ \E i \in CallsOf("parse_and_execute_action") :
       /\ log[i].turn = 2
       /\ ~log[i].ok
       /\ HandedToExecutor(ReplyOf(2))
       /\ InputsOf(2) # <<>>
  /\ \A n \in CallsOf("settle") : log[n].turn = 1

\* The reply decodes to the action data of a type / type_search_query action
\* that names no selector.
TypesWithoutSelector(text) ==
  LET data == ExtractActionData(text)
  IN  /\ data.ok
      /\ Get(data.val, "action", "None") \in {"type", "type_search_query"}
      /\ "selector" \notin DOMAIN Get(data.val, "details", EmptyDict)

\* The fallback chain of a type action without selector, as the claim has it.
TypeFallbacks ==
  << [op |-> "fill", sel |-> "input[name=\"q\"]"],
     [op |-> "fill", sel |-> "input[type=\"search\"]"],
     [op |-> "keyboard.type", sel |-> ""] >>

\* C9: a type / type_search_query action without selector fills
\* input[name="q"] first, then input[type="search"], then types on the
\* keyboard, in that order: a later step is attempted only when every earlier
\* one raised, and nothing is attempted after the first step that returns.
C9_TypeFallbackOrder ==
  \A t \in DOMAIN conversation_history :
    (Acted(t) /\ TypesWithoutSelector(ReplyOf(t))) =>
      LET made == InputsOf(t)
      IN  /\ Len(made) \in 1..Len(TypeFallbacks)
          /\ \A n \in 1..Len(made) :
               /\ made[n].op = TypeFallbacks[n].op
               /\ made[n].sel = TypeFallbacks[n].sel
               /\ made[n].txt = TypedText(ExtractActionData(ReplyOf(t)).val.details)
               /\ n < Len(made) => ~made[n].ok
          /\ Len(made) < Len(TypeFallbacks) => made[Len(made)].ok

\* Both fills raised and the keyboard typed the query.
C9_Witness ==
  /\ Len(conversation_history) >= 1
  /\ TypesWithoutSelector(ReplyOf(1))
  /\ Len(InputsOf(1)) = 3
  /\ ~InputsOf(1)[1].ok /\ ~InputsOf(1)[2].ok /\ InputsOf(1)[3].ok
  /\ InputsOf(1)[3].op = "keyboard.type"

\* The reply decodes to a click whose details hold both x and y.
ClicksAtCoordinates(text) ==
  LET data == ExtractActionData(text)
  IN  /\ data.ok
      /\ Get(data.val, "action", "None") = "click"
      /\ {"x", "y"} \subseteq DOMAIN Get(data.val, "details", EmptyDict)

\* C10: a click whose details hold x and y issues exactly one coordinate click,
\* at exactly (x, y), and no selector click, with or without a selector in the
\* details and whether or not the coordinate click raises.
C10_CoordinateClickOnly ==
  \A t \in DOMAIN conversation_history :
    (Acted(t) /\ ClicksAtCoordinates(ReplyOf(t))) =>
      /\ Len(InputsOf(t)) = 1
      /\ InputsOf(t)[1].op = "mouse.click"
      /\ InputsOf(t)[1].x = ExtractActionData(ReplyOf(t)).val.details.x
      /\ InputsOf(t)[1].y = ExtractActionData(ReplyOf(t)).val.details.y

\* A click with coordinates and a selector was issued at (30, 40) and raised.
C10_Witness ==
  /\ Len(conversation_history) >= 1
  /\ ClicksAtCoordinates(ReplyOf(1))
  /\ "selector" \in DOMAIN ExtractActionData(ReplyOf(1)).val.details
  /\ Len(InputsOf(1)) = 1
  /\ InputsOf(1)[1].x = 30 /\ InputsOf(1)[1].y = 40
  /\ ~InputsOf(1)[1].ok

----------------------------------------------------------------------------
\* The positions of the fenced blocks of a reply that hold exactly one
\* decodable object whose action is in the vocabulary.
ValidBlocks(text) ==
  {i \in 1..(Len(text) - 2) :
     /\ text[i].k = "fopen"
     /\ text[i + 1].k = "obj"
     /\ text[i + 1].ok
     /\ text[i + 2].k \in {"fopen", "fclose"}
     /\ Get(text[i + 1].val, "action", "None") \in RecognizedActions}

\* The positions where a fence opener is directly followed by a brace span.
BlockOpeners(text) ==
  {i \in 1..(Len(text) - 1) : text[i].k = "fopen" /\ text[i + 1].k = "obj"}

\* The closing braces at or after position i that a fence directly follows.
BlockClosers(text, i) ==
  {j \in i..(Len(text) - 1) :
     text[j].k = "obj" /\ text[j + 1].k \in {"fopen", "fclose"}}

\* The reply holds a fenced block: an opener with a closer after it.
HasFencedBlock(text) ==
  /\ BlockOpeners(text) # {}
  /\ BlockClosers(text, MinOf(BlockOpeners(text)) + 1) # {}

\* The text of the first fenced block: from the brace after the first opener to
\* the nearest closer.
FirstFencedBlock(text) ==
  LET i == MinOf(BlockOpeners(text))
  IN  SubSeq(text, i + 1, MinOf(BlockClosers(text, i + 1)))

\* Turn t made exactly the page calls of the action action_data, and reported
\* what that action reports.
DispatchedAs(t, action_data) ==
  \E outs \in [1..3 -> BOOLEAN] :
    LET r == Dispatch(action_data, outs, t)
        IsInput(e) == e.op \in InputOps
    IN  /\ InputsOf(t) = SelectSeq(r.events, IsInput)
        /\ \A i \in CallsOf("parse_and_execute_action") :
             log[i].turn = t => log[i].ok = r.success

----------------------------------------------------------------------------
\* After the call of parse_and_execute_action at position i of the log, in turn
\* t, the run goes on: the next thing it does is the screenshot of turn t + 1
\* or, when t was the last turn of the budget, the max-steps return and the
\* release of the browser; no exception is in flight.
RunGoesOnAfter(i, t) ==
  LET later == {j \in DOMAIN log : j > i /\ log[j].turn # t}
  IN  IF t < max_steps
        THEN IF later = {}
               THEN pc = "screenshot" /\ step = t /\ pending = "none"
               ELSE log[MinOf(later)].op = "screenshot" /\ log[MinOf(later)].turn = t + 1
        ELSE /\ retval = MaxStepsReached(max_steps)
             /\ IF later = {}
                  THEN pc = "stop_browser" /\ pending = "none"
                  ELSE log[MinOf(later)].op = "browser.close"

\* The reply decodes, and its action is none of the vocabulary (or it has no
\* action key).
DecodesToUnknownAction(text) ==
  /\ ExtractActionData(text).ok
  /\ Get(ExtractActionData(text).val, "action", "None") \notin RecognizedActions

\* C12: for a decoded reply whose action is not in the vocabulary, or that has
\* no action key, the call reports failure, nothing is called on the page or
\* anywhere else for it, and the run goes on.
C12_UnknownActionTouchesNothing ==
  \A i \in CallsOf("parse_and_execute_action") :
    LET t == log[i].turn
    IN  DecodesToUnknownAction(ReplyOf(t)) =>
          /\ ~log[i].ok
          /\ \A j \in DOMAIN log : j > i => log[j].turn # t
          /\ RunGoesOnAfter(i, t)

\* Turn 1 decoded an object without action key, turn 2 a navigate action, and
\* both turns went through parse_and_execute_action.
C12_Witness ==
  /\ Len(conversation_history) = 2
  /\ ExtractActionData(ReplyOf(1)).ok
  /\ "action" \notin DOMAIN ExtractActionData(ReplyOf(1)).val
  /\ DecodesToUnknownAction(ReplyOf(2))
  /\ Get(ExtractActionData(ReplyOf(2)).val, "action", "None") = "navigate"
  /\ Acted(1) /\ Acted(2)

----------------------------------------------------------------------------
\* The reply decodes to a navigate action that carries a url.
DecodesToNavigate(text) ==
  /\ ExtractActionData(text).ok
  /\ Get(ExtractActionData(text).val, "action", "None") = "navigate"
  /\ "url" \in DOMAIN Get(ExtractActionData(text).val, "details", EmptyDict)

NavigateUrl(text) ==
  Get(ExtractActionData(text).val, "details", EmptyDict).url

\* C13 as stated: a parsed navigate action with a url makes the executor load
\* that URL in the page, and the step is reported as a successful action.
C13_NavigateLoadsUrl ==
  \A i \in CallsOf("parse_and_execute_action") :
    DecodesToNavigate(ReplyOf(log[i].turn)) =>
      /\ log[i].ok
      /\ \E j \in CallsOf("goto") :
           /\ j > i
           /\ log[j].turn = log[i].turn
           /\ log[j].txt = NavigateUrl(ReplyOf(log[i].turn))

\* C13 as the code has it: navigate is not one of the executor's actions. A
\* parsed navigate action loads nothing (the one page load of a run is that of
\* the start URL, before the first turn), no page call is made for it, and the
\* step is reported as failed.
C13_NavigateLoadsNothing ==
  /\ \A j \in CallsOf("goto") : log[j].turn = 0 /\ j = MinOf(CallsOf("goto"))
  /\ \A i \in CallsOf("parse_and_execute_action") :
       DecodesToNavigate(ReplyOf(log[i].turn)) =>
         /\ ~log[i].ok
         /\ InputsOf(log[i].turn) = <<>>
         /\ \A j \in DOMAIN log : log[j].op = "settle" => log[j].turn # log[i].turn

\* A navigate action with url "example.com" went through
\* parse_and_execute_action in turn 1.
C13_Witness ==
  /\ Len(conversation_history) >= 1
  /\ DecodesToNavigate(ReplyOf(1))
  /\ NavigateUrl(ReplyOf(1)) = "example.com"
  /\ Acted(1)

----------------------------------------------------------------------------
\* C14: the conversation history starts empty, holds one assistant message per
\* successful model call, in the order of the calls and with the raw reply of
\* the call as content, and the history handed to the k-th model call is the
\* first k - 1 entries of the history as it is now: nothing that was once in
\* the history was removed, reordered or rewritten.
C14_HistoryAppendOnly ==
  /\ pc = "start_browser" => conversation_history = <<>>
  /\ Len(sent) = Cardinality(CallsOf("chat.completions.create"))
  /\ Len(conversation_history) =
       Cardinality({i \in CallsOf("chat.completions.create") : log[i].ok})
  /\ \A k \in DOMAIN sent :
       /\ k - 1 <= Len(conversation_history)
       /\ sent[k] = SubSeq(conversation_history, 1, k - 1)
  /\ \A n \in DOMAIN conversation_history :
       /\ conversation_history[n].role = "assistant"
       /\ conversation_history[n].content \in ReplyIds
  /\ pc \in {"check_complete", "act"} =>
       /\ conversation_history # <<>>
       /\ conversation_history[Len(conversation_history)].content = response_text

\* The second model call was made with the first reply as its history and
\* returned a different reply, which is now the second entry.
C14_Witness ==
  /\ Len(sent) = 2
  /\ Len(conversation_history) = 2
  /\ sent[1] = <<>>
  /\ sent[2] = <<conversation_history[1]>>
  /\ conversation_history[1].content # conversation_history[2].content
  /\ pc = "act"

----------------------------------------------------------------------------
\* Every page call made for the action of turn t raised, and there was one.
AllCallsRaised(t) ==
  /\ InputsOf(t) # <<>>
  /\ \A n \in DOMAIN InputsOf(t) : ~InputsOf(t)[n].ok

\* C15: when every call of the action's chain raised, the final one included
\* (for a type action without selector: the two fills and the keyboard
\* typing), the executor reports the action as failed, no settle delay follows,
\* and the run goes on with the next turn or, the budget used up, with the
\* max-steps return.
C15_ExhaustedChainFailsStepOnly ==
  \A i \in CallsOf("parse_and_execute_action") :
    LET t == log[i].turn
    IN  AllCallsRaised(t) =>
          /\ ~log[i].ok
          /\ TypesWithoutSelector(ReplyOf(t)) =>
               /\ Len(InputsOf(t)) = 3
               /\ InputsOf(t)[3].op = "keyboard.type"
          /\ \A j \in DOMAIN log : log[j].turn = t => log[j].op # "settle"
          /\ RunGoesOnAfter(i, t)

\* Turn 1 was a type action without selector whose two fills and keyboard
\* typing all raised, and the loop took the screenshot of turn 2.
C15_Witness ==
  /\ Len(conversation_history) >= 1
  /\ TypesWithoutSelector(ReplyOf(1))
  /\ Acted(1)
  /\ AllCallsRaised(1)
  /\ Len(InputsOf(1)) = 3
  /\ \E j \in CallsOf("screenshot") : log[j].turn = 2

----------------------------------------------------------------------------
\* The positions of the log that belong to turn t, and those of one operation.
EventsOf(t) == {i \in DOMAIN log : log[i].turn = t}

TurnCalls(t, op) == {i \in EventsOf(t) : log[i].op = op}

\* C16: the turns follow one another in the log, the calls outside the loop
\* before the first and after the last; a turn starts with its one
\* screenshot, makes at most one model call, after the screenshot and only if
\* the screenshot returned, and at most one call of parse_and_execute_action,
\* after the model call and only if that call returned; the page calls of the
\* action come after it, and no page call is made twice for one action.
C16_OneOfEachInOrder ==
  /\ \A i \in 1..(Len(log) - 1) :
       IF log[i + 1].turn > 0
         THEN log[i].turn <= log[i + 1].turn
         ELSE log[i].turn = 0 \/ log[i + 1].op = "browser.close"
  /\ \A t \in 1..(MaxStepsBound + 1) :
       EventsOf(t) # {} =>
         LET shots  == TurnCalls(t, "screenshot")
             calls  == TurnCalls(t, "chat.completions.create")
             parses == TurnCalls(t, "parse_and_execute_action")
             inputs == {i \in EventsOf(t) : log[i].op \in InputOps}
         IN  /\ t <= max_steps
             /\ Cardinality(shots) = 1
             /\ shots = {MinOf(EventsOf(t))}
             /\ Cardinality(calls) <= 1
             /\ \A c \in calls : c = MinOf(shots) + 1 /\ log[MinOf(shots)].ok
             /\ Cardinality(parses) <= 1
             /\ \A p \in parses : calls # {} /\ p = MinOf(calls) + 1 /\ log[MinOf(calls)].ok
             /\ \A n \in inputs : parses # {} /\ n > MinOf(parses)
             /\ \A m, n \in inputs :
                  (m # n) =>
                    <<log[m].op, log[m].sel, log[m].txt>> # <<log[n].op, log[n].sel, log[n].txt>>

\* Two turns ran to their action; the action of turn 1 went through a chain
\* of three page calls.
C16_Witness ==
  /\ Acted(1) /\ Acted(2)
  /\ Len(InputsOf(1)) = 3
  /\ Len(InputsOf(2)) >= 1

----------------------------------------------------------------------------
\* How far the run is from its end: the turns of the budget not yet begun, and
\* the place within the turn.
Rank ==
  CASE pc = "start_browser"   -> 5 * (max_steps + 1) + 2
    [] pc = "goto"            -> 5 * (max_steps + 1) + 1
    [] pc = "screenshot"      -> 5 * (max_steps - step) + 4
    [] pc = "call_api"        -> 5 * (max_steps - step) + 3
    [] pc = "check_complete"  -> 5 * (max_steps - step) + 2
    [] pc = "act"             -> 5 * (max_steps - step) + 1
    [] pc = "stop_browser"    -> 1
    [] OTHER                  -> 0

\* C17: when every collaborator call returns or raises, every run of run_task
\* comes to its end (it returns or an exception leaves it), whatever max_steps
\* and whatever the replies; every step brings the run nearer to its end, a
\* parse failure or failed action included, so no turn is ever run again.
C17_RunTerminates ==
  /\ <>Terminated
  /\ [][Rank' < Rank]_vars

\* The run ended after a budget of two turns, both of which ended in a failure
\* of parse_and_execute_action.
C17_Witness ==
  /\ Terminated
  /\ max_steps = 2
  /\ Acted(1) /\ Acted(2)
  /\ \A i \in CallsOf("parse_and_execute_action") : ~log[i].ok

----------------------------------------------------------------------------
\* C18: a result with success = True is the completion result of the latest
\* turn, the reply of that turn holds "task_complete" or "done" in some
\* letter case, and that reply was not handed to the executor; while no reply
\* holds a marker the result is not a success, however many actions were
\* executed successfully; and once a result is set the run does nothing but
\* release the browser: no event of a later turn, no further model call.
C18_SuccessOnlyOnMarker ==
  /\ retval.success =>
       /\ conversation_history # <<>>
       /\ MarkerIn(Len(conversation_history))
       /\ retval = Completed(Len(conversation_history))
       /\ ~Acted(Len(conversation_history))
  /\ (\A t \in DOMAIN conversation_history : ~MarkerIn(t)) => ~retval.success
  /\ retval # NoResult =>
       /\ pc \in {"stop_browser", "returned", "raised"}
       /\ \A i \in DOMAIN log : log[i].turn <= retval.n
       /\ Len(sent) <= retval.n

\* run_task returned success in turn 2 on a reply whose only marker is the
\* "done" inside the query text "abandoned"; the action of turn 1 had been
\* executed successfully without ending the run.
C18_Witness ==
  /\ pc = "returned"
  /\ retval = Completed(2)
  /\ conversation_history[2].content = 20
  /\ \E i \in CallsOf("parse_and_execute_action") : log[i].turn = 1 /\ log[i].ok

----------------------------------------------------------------------------
\* The brace spans of a reply, and the reply's one bare object when it holds
\* no fenced block and exactly one brace span.
BraceSpans(text) == {i \in DOMAIN text : text[i].k = "obj"}

OnlyBareObject(text) ==
  /\ ~HasFencedBlock(text)
  /\ Cardinality(BraceSpans(text)) = 1
  /\ text[MinOf(BraceSpans(text))].ok

\* The reply holds a fenced block whose content is not one decodable object.
FirstBlockUndecodable(text) ==
  /\ HasFencedBlock(text)
  /\ ~(Len(FirstFencedBlock(text)) = 1 /\ FirstFencedBlock(text)[1].ok)

\* C19: the brace search serves the replies without fenced block (their one
\* bare object is the action executed) and no others: when a fenced block is
\* matched and its content does not decode, neither a bare object nor a later
\* block of the reply is used, the call reports failure, nothing is called on
\* the page, and the run goes on.
C19_NoFallbackAfterFencedMatch ==
  \A i \in CallsOf("parse_and_execute_action") :
    LET t    == log[i].turn
        text == ReplyOf(t)
    IN  /\ FirstBlockUndecodable(text) =>
             /\ ~log[i].ok
             /\ \A j \in DOMAIN log : j > i => log[j].turn # t
             /\ RunGoesOnAfter(i, t)
        /\ OnlyBareObject(text) =>
             DispatchedAs(t, text[MinOf(BraceSpans(text))].val)

\* Turn 1: a malformed fenced block followed by a decodable bare object; the
\* call failed and touched nothing.  Turn 2: a reply without fenced block
\* whose bare object, a submit action, pressed Enter.
C19_Witness ==
  /\ Len(conversation_history) = 2
  /\ Acted(1) /\ Acted(2)
  /\ FirstBlockUndecodable(ReplyOf(1))
  /\ \E n \in BraceSpans(ReplyOf(1)) :
       /\ ReplyOf(1)[n].ok
       /\ n > MinOf(BlockClosers(ReplyOf(1), MinOf(BlockOpeners(ReplyOf(1))) + 1)) + 1
  /\ InputsOf(1) = <<>>
  /\ OnlyBareObject(ReplyOf(2))
  /\ Len(InputsOf(2)) = 1
  /\ InputsOf(2)[1].op = "keyboard.press"

----------------------------------------------------------------------------
\* The reply decodes to a click_search / search action.
ClicksSearch(text) ==
  /\ ExtractActionData(text).ok
  /\ Get(ExtractActionData(text).val, "action", "None") \in {"click_search", "search"}

\* The chain of a click_search / search action, as the claim has it.
SearchFallbacks ==
  << [op |-> "click", sel |-> "input[value=\"Google Search\"]", txt |-> ""],
     [op |-> "click", sel |-> "button[type=\"submit\"]", txt |-> ""],
     [op |-> "keyboard.press", sel |-> "", txt |-> "Enter"] >>

\* C20: a click_search / search action clicks the "Google Search" input first,
\* then the submit button, then presses Enter, in that order: a later step is
\* attempted only when every earlier one raised, nothing is attempted after a
\* step that returns (so at most one step succeeds), and the action is reported
\* failed exactly when all three were attempted and the Enter press raised.
C20_SearchFallbackOrder ==
  \A i \in CallsOf("parse_and_execute_action") :
    LET t    == log[i].turn
        made == InputsOf(t)
    IN  ClicksSearch(ReplyOf(t)) =>
          /\ Len(made) \in 1..Len(SearchFallbacks)
          /\ \A n \in 1..Len(made) :
               /\ made[n].op = SearchFallbacks[n].op
               /\ made[n].sel = SearchFallbacks[n].sel
               /\ made[n].txt = SearchFallbacks[n].txt
               /\ n < Len(made) => ~made[n].ok
          /\ Len(made) < Len(SearchFallbacks) => made[Len(made)].ok
          /\ Cardinality({n \in 1..Len(made) : made[n].ok}) <= 1
          /\ ~log[i].ok <=> (Len(made) = Len(SearchFallbacks) /\ ~made[Len(made)].ok)

\* Turn 1, a click_search action: the click on the "Google Search" input
\* raised, the click on the submit button returned, Enter was not pressed.
\* Turn 2, a search action: both clicks and the Enter press raised, and the
\* action was reported failed.
C20_Witness ==
  /\ Len(conversation_history) = 2
  /\ Get(ExtractActionData(ReplyOf(1)).val, "action", "None") = "click_search"
  /\ Get(ExtractActionData(ReplyOf(2)).val, "action", "None") = "search"
  /\ Acted(1) /\ Acted(2)
  /\ Len(InputsOf(1)) = 2
  /\ ~InputsOf(1)[1].ok /\ InputsOf(1)[2].ok
  /\ Len(InputsOf(2)) = 3
  /\ \A n \in 1..3 : ~InputsOf(2)[n].ok
  /\ \E i \in CallsOf("parse_and_execute_action") : log[i].turn = 2 /\ ~log[i].ok

====
